---------------------------- MODULE Spec2Model ----------------------------
(***************************************************************************)
(* HD44780 LCD driver over a PCF8574 (HW061) I2C expander, 4-bit mode.     *)
(*                                                                         *)
(* The driver (HD44780.c / HD44780.h) is modelled function by function as  *)
(* operators over a machine record m that holds the display handle, the    *)
(* file-static AddressCounter, the expander/controller at the other end of *)
(* the bus, and the bus traffic of the public call in progress.  Every     *)
(* public function is one action.                                          *)
(***************************************************************************)
EXTENDS Integers, Sequences, FiniteSets, TLC

(***************************************************************************)
(* Program constants (HD44780.h).                                          *)
(***************************************************************************)
HD44780_NUM_ROWS == 2
HD44780_NUM_COLS == 16
HD44780_RS == 1
HD44780_RW == 2
HD44780_EN == 4
HD44780_BACKLIGHT == 8
HD44780_FUNCTION_SET == 32
HD44780_NUM_ELEMENTS == HD44780_NUM_ROWS * HD44780_NUM_COLS
\* the retry budget of the busy-flag loops of HD44780_Send_Command/_Send_Data
BUSY_RETRIES == 20

(***************************************************************************)
(* Bounds of the model.                                                    *)
(***************************************************************************)
\* longest execution time (ms) the controller takes for clear / return home
MaxLag == 3
\* a controller fault may strike at the 1st .. MaxFault-th instruction of a call
MaxFault == 2
\* number of public calls in a behaviour
MaxCalls == 3
\* longest string handed to HD44780_Print
MaxStrLen == 33
\* largest row / column argument tried
MaxRow == 2
MaxCol == 16
\* largest NumberOfScrolls handed to HD44780_Animate_Text
MaxScrolls == 1
\* a call's bus transaction that fails is one of its first MaxErrAt
MaxErrAt == 11
\* calls followed in the longer sequences
MaxDeepCalls == 4
\* calls followed when the controller's address counter is arbitrary (and one
\* read_character after them)
MaxAddrCalls == 2

(***************************************************************************)
(* uint8_t arithmetic.                                                     *)
(***************************************************************************)
\* v is evaluated once and handed to F: the sequencing of the C statements
With(v, F(_)) == CHOOSE r \in {F(x) : x \in {v}} : TRUE

Bit(x, i) == (x \div (2 ^ i)) % 2
BitOr(x0, y0) ==
  With(x0, LAMBDA x : With(y0, LAMBDA y :
    LET b(i) == IF Bit(x, i) = 1 \/ Bit(y, i) = 1 THEN 2 ^ i ELSE 0
    IN b(0) + b(1) + b(2) + b(3) + b(4) + b(5) + b(6) + b(7)))
BitAnd(x0, y0) ==
  With(x0, LAMBDA x : With(y0, LAMBDA y :
    LET b(i) == IF Bit(x, i) = 1 /\ Bit(y, i) = 1 THEN 2 ^ i ELSE 0
    IN b(0) + b(1) + b(2) + b(3) + b(4) + b(5) + b(6) + b(7)))
BitNot(x) == 255 - x
U8(x) == x % 256
Max(a, b) == IF a > b THEN a ELSE b

(***************************************************************************)
(* The far end of the bus: the PCF8574 pins and the HD44780 behind them.   *)
(* P0 = RS, P1 = R/W, P2 = EN, P3 = backlight, P4..P7 = D4..D7.            *)
(*                                                                         *)
(*   pins    last byte written to the expander                             *)
(*   DL      TRUE: 8-bit interface (power-on), FALSE: 4-bit                *)
(*   hi      high nibble latched and waiting for its low nibble, or -1     *)
(*   N,D,C,B,ID,S   function-set / display-control / entry-mode flags      *)
(*   ac      the controller's address counter (DDRAM address, 7 bits)      *)
(*   ddram   display data RAM                                              *)
(*   shift   display shift offset                                          *)
(*   busy    ms the instruction in progress still needs                    *)
(*   stuck   the controller never clears its busy flag again (fault)       *)
(*   rd,status,out  read phase, latched status byte, nibble driven on D4-7 *)
(*   lag,faultAt    the environment's choices for the call in progress:    *)
(*           execution time of clear/home, and which instruction (if any)  *)
(*           wedges the controller                                         *)
(*   log     the instructions <<rs, byte>> latched during the call         *)
(***************************************************************************)
DDRAM_LINE == 40
DDRAM_ROW1 == 64
BLANK == 32
DDRAMAddrs == (0 .. (DDRAM_LINE - 1)) \cup (DDRAM_ROW1 .. (DDRAM_ROW1 + DDRAM_LINE - 1))

PowerOnLcd ==
  [ pins |-> 255, DL |-> TRUE, hi |-> -1,
    N |-> FALSE, D |-> FALSE, C |-> FALSE, B |-> FALSE, ID |-> TRUE, S |-> FALSE,
    ac |-> 0, ddram |-> [a \in DDRAMAddrs |-> BLANK], shift |-> 0,
    busy |-> 0, stuck |-> FALSE,
    rd |-> 0, status |-> 0, out |-> 15,
    lag |-> 0, faultAt |-> 0, log |-> << >> ]

\* the address counter after one increment / decrement (entry mode I/D)
AcStep(lcd) ==
  IF lcd.ID
  THEN IF lcd.N
       THEN IF lcd.ac = DDRAM_LINE - 1 THEN DDRAM_ROW1
            ELSE IF lcd.ac = DDRAM_ROW1 + DDRAM_LINE - 1 THEN 0
            ELSE (lcd.ac + 1) % 128
       ELSE IF lcd.ac = 2 * DDRAM_LINE - 1 THEN 0 ELSE (lcd.ac + 1) % 128
  ELSE IF lcd.N
       THEN IF lcd.ac = DDRAM_ROW1 THEN DDRAM_LINE - 1
            ELSE IF lcd.ac = 0 THEN DDRAM_ROW1 + DDRAM_LINE - 1
            ELSE (lcd.ac + 127) % 128
       ELSE IF lcd.ac = 0 THEN 2 * DDRAM_LINE - 1 ELSE (lcd.ac + 127) % 128

ShiftLen(lcd) == IF lcd.N THEN DDRAM_LINE ELSE 2 * DDRAM_LINE

\* the effect of one instruction (rs = 0) or data byte (rs = 1) on the controller
LcdEffect(lcd0, rs, byte) ==
  With(lcd0, LAMBDA lcd :
  IF rs = 1 THEN
    [lcd EXCEPT !.ddram = IF lcd.ac \in DDRAMAddrs
                          THEN [lcd.ddram EXCEPT ![lcd.ac] = byte]
                          ELSE lcd.ddram,
                !.ac = AcStep(lcd),
                !.shift = IF lcd.S THEN (lcd.shift + (IF lcd.ID THEN ShiftLen(lcd) - 1 ELSE 1))
                                         % ShiftLen(lcd)
                          ELSE lcd.shift]
  ELSE IF byte >= 128 THEN [lcd EXCEPT !.ac = byte - 128]
  ELSE IF byte >= 64 THEN lcd
  ELSE IF byte >= 32 THEN
    [lcd EXCEPT !.DL = (Bit(byte, 4) = 1), !.N = (Bit(byte, 3) = 1), !.hi = -1]
  ELSE IF byte >= 16 THEN
    IF Bit(byte, 3) = 1
    THEN [lcd EXCEPT !.shift = (lcd.shift + (IF Bit(byte, 2) = 1 THEN 1 ELSE ShiftLen(lcd) - 1))
                                % ShiftLen(lcd)]
    ELSE [lcd EXCEPT !.ac = AcStep([lcd EXCEPT !.ID = (Bit(byte, 2) = 1)])]
  ELSE IF byte >= 8 THEN
    [lcd EXCEPT !.D = (Bit(byte, 2) = 1), !.C = (Bit(byte, 1) = 1), !.B = (Bit(byte, 0) = 1)]
  ELSE IF byte >= 4 THEN
    [lcd EXCEPT !.ID = (Bit(byte, 1) = 1), !.S = (Bit(byte, 0) = 1)]
  ELSE IF byte >= 2 THEN [lcd EXCEPT !.ac = 0, !.shift = 0]
  ELSE IF byte = 1 THEN
    [lcd EXCEPT !.ddram = [a \in DDRAMAddrs |-> BLANK], !.ac = 0, !.shift = 0, !.ID = TRUE]
  ELSE lcd)

\* clear display and return home are the slow instructions (1.52 ms or more);
\* every other one is done within the driver's 1 ms HAL_Delay
LcdExecTime(lcd, rs, byte) ==
  IF rs = 0 /\ byte \in {1, 2, 3} THEN lcd.lag ELSE 0

\* the controller receives a complete instruction: it is dropped while the busy
\* flag is set, otherwise executed; the faultAt-th one of a call wedges the chip
LcdExec(lcd0, rs, byte) ==
  With(lcd0, LAMBDA lcd :
  With([lcd EXCEPT !.log = Append(lcd.log, <<rs, byte>>)], LAMBDA l1 :
    IF lcd.stuck \/ lcd.busy > 0 THEN l1
    ELSE IF Len(l1.log) = lcd.faultAt THEN [l1 EXCEPT !.stuck = TRUE]
    ELSE [LcdEffect(l1, rs, byte) EXCEPT !.busy = LcdExecTime(lcd, rs, byte)]))

\* falling edge of EN with R/W = 0: the controller latches D4..D7
LcdLatch(lcd0, nibble, rs) ==
  With(lcd0, LAMBDA lcd :
    IF lcd.DL THEN LcdExec(lcd, rs, nibble * 16)
    ELSE IF lcd.hi = -1 THEN [lcd EXCEPT !.hi = nibble]
    ELSE LcdExec([lcd EXCEPT !.hi = -1], rs, lcd.hi * 16 + nibble))

\* rising edge of EN with R/W = 1, RS = 0: the controller drives busy flag and
\* address counter, high nibble first
LcdDrive(lcd0) ==
  With(lcd0, LAMBDA lcd :
    IF lcd.rd = 0
    THEN With((IF lcd.stuck \/ lcd.busy > 0 THEN 128 ELSE 0) + lcd.ac, LAMBDA st :
           [lcd EXCEPT !.status = st, !.out = st \div 16])
    ELSE [lcd EXCEPT !.out = lcd.status % 16])

\* falling edge of EN with R/W = 1: the bus is released
LcdRelease(lcd0) ==
  With(lcd0, LAMBDA lcd : [lcd EXCEPT !.rd = 1 - lcd.rd, !.out = 15])

\* the expander's pins change from lcd.pins to byte
ExpanderWrite(lcd0, byte0) ==
  With(lcd0, LAMBDA lcd : With(byte0, LAMBDA byte :
    LET old == lcd.pins
        rise == Bit(old, 2) = 0 /\ Bit(byte, 2) = 1
        fall == Bit(old, 2) = 1 /\ Bit(byte, 2) = 0
    IN IF fall /\ Bit(old, 1) = 0
       THEN LcdLatch([lcd EXCEPT !.pins = byte], old \div 16, Bit(old, 0))
       ELSE IF fall THEN LcdRelease([lcd EXCEPT !.pins = byte])
       ELSE IF rise /\ Bit(byte, 1) = 1 /\ Bit(byte, 0) = 0
       THEN LcdDrive([lcd EXCEPT !.pins = byte])
       ELSE [lcd EXCEPT !.pins = byte]))

\* the byte the expander returns: D4..D7 as the controller drives them
ExpanderRead(lcd) ==
  IF Bit(lcd.pins, 2) = 1 /\ Bit(lcd.pins, 1) = 1
  THEN lcd.out * 16 + (lcd.pins % 16)
  ELSE lcd.pins

\* ms of time pass
LcdWait(lcd, ms) == [lcd EXCEPT !.busy = Max(0, lcd.busy - ms)]

(***************************************************************************)
(* The machine: the display handle (HD44780_HandleTypeDef), the static     *)
(* AddressCounter, the hardware, and what the call in progress has done:   *)
(*   bus     its bus transactions, <<"W", byte>> or <<"R", byte>>          *)
(*   hooks   the number of times it entered HD44780_Error_Handler          *)
(*   hung    it is inside HD44780_Error_Handler's loop and never returns   *)
(*   done    it has executed a return statement inside a loop              *)
(*   ret     the value it returns (bool as 1 / 0, -1 for void)             *)
(*   errAt   which of its bus transactions fails (0: none); a failed one   *)
(*           is <<"WX", byte>> or <<"RX", byte>> in bus                    *)
(*   junk    what an uninitialised ReadBuffer holds                        *)
(*   rb      ReadBuffer                                                    *)
(*   idx     the indices at which it stored into, or read from, Text by an *)
(*           index it computed (HD44780_Print, HD44780_Read_Character)     *)
(* Once hung, no later statement of the call has any effect.               *)
(***************************************************************************)
NoText == [i \in 0 .. (HD44780_NUM_ELEMENTS - 1) |-> 0]

\* the bus transaction about to be made is the one of this call that fails
BusFails(m) == Len(m.bus) + 1 = m.errAt

\* stm32 HAL: one byte to the expander; a failed transfer (its return value is
\* not looked at) leaves the expander's pins as they are
HAL_I2C_Master_Transmit(m0, byte) ==
  With(m0, LAMBDA m :
    IF m.hung THEN m
    ELSE IF BusFails(m) THEN [m EXCEPT !.bus = Append(m.bus, <<"WX", byte>>)]
    ELSE [m EXCEPT !.bus = Append(m.bus, <<"W", byte>>),
                   !.lcd = ExpanderWrite(m.lcd, byte)])

\* the local ReadBuffer of HD44780_Check_Status
ReadBuffer(m) == m.rb

\* stm32 HAL: one byte from the expander into ReadBuffer; a failed transfer
\* leaves ReadBuffer as it is
HAL_I2C_Master_Receive(m0) ==
  With(m0, LAMBDA m :
    IF m.hung THEN m
    ELSE IF BusFails(m) THEN [m EXCEPT !.bus = Append(m.bus, <<"RX", m.rb>>)]
    ELSE With(ExpanderRead(m.lcd), LAMBDA b :
           [m EXCEPT !.bus = Append(m.bus, <<"R", b>>), !.rb = b]))

HAL_Delay(m0, ms) ==
  With(m0, LAMBDA m : IF m.hung THEN m ELSE [m EXCEPT !.lcd = LcdWait(m.lcd, ms)])

\* a transmit followed by its settling delay
Tx(m, byte, ms) == HAL_Delay(HAL_I2C_Master_Transmit(m, byte), ms)

HD44780_Check_Status(m0) ==
  LET ReadCommand == BitOr(BitOr(240, HD44780_BACKLIGHT), HD44780_RW)
      ReadEn == BitOr(ReadCommand, HD44780_EN)
      ReadDis == BitAnd(ReadEn, BitNot(HD44780_EN))
  IN With(m0, LAMBDA m :
     IF m.hung THEN m ELSE
     With(Tx(Tx([m EXCEPT !.rb = m.junk], ReadCommand, 1), ReadEn, 1), LAMBDA s2 :
     With(Tx(Tx(HAL_I2C_Master_Receive(s2), ReadDis, 1), ReadEn, 1), LAMBDA s4 :
     With(Tx(HAL_I2C_Master_Receive(s4), ReadDis, 1), LAMBDA s5 :
     With(BitAnd(ReadBuffer(s4), 240), LAMBDA Data_7_4 :
     With(BitAnd(ReadBuffer(s5) \div 16, 15), LAMBDA Data_3_0 :
     With(BitOr(Data_7_4, Data_3_0), LAMBDA Data :
       IF Bit(Data, 7) = 1
       THEN [s5 EXCEPT !.State = "HD44780_BUSY"]
       ELSE [s5 EXCEPT !.AddressCounter = BitAnd(Data, BitNot(128)),
                       !.State = "HD44780_READY"])))))))

\* the handler as shipped: its loop body is empty
HD44780_Error_Handler(m0) ==
  With(m0, LAMBDA m :
    IF m.hung THEN m
    ELSE [m EXCEPT !.hooks = m.hooks + 1,
                   !.hung = (m.State # "HD44780_READY")])

\* variant: the high nibble is not masked out before the low nibble is set
Send_Command_Frame_KeepHigh(m, Command0) ==
  With(Command0, LAMBDA Command :
  With(BitAnd(240, Command), LAMBDA Command_7_4 :
  With(BitAnd(240, U8(Command * 16)), LAMBDA Command_3_0 :
  With(BitOr(BitOr(Command_7_4, HD44780_BACKLIGHT), HD44780_EN), LAMBDA w1 :
  With(BitAnd(w1, BitNot(HD44780_EN)), LAMBDA w2 :
  With(BitOr(w2, BitOr(BitOr(Command_3_0, HD44780_BACKLIGHT), HD44780_EN)),
       LAMBDA w3 :
  With(BitAnd(w3, BitNot(HD44780_EN)), LAMBDA w4 :
    Tx(Tx(Tx(Tx(m, w1, 1), w2, 1), w3, 1), w4, 1))))))))

\* the four framing writes of HD44780_Send_Command
Send_Command_Frame(m, Command0) ==
  With(Command0, LAMBDA Command :
  With(BitAnd(240, Command), LAMBDA Command_7_4 :
  With(BitAnd(240, U8(Command * 16)), LAMBDA Command_3_0 :
  With(BitOr(BitOr(Command_7_4, HD44780_BACKLIGHT), HD44780_EN), LAMBDA w1 :
  With(BitAnd(w1, BitNot(HD44780_EN)), LAMBDA w2 :
  With(BitOr(BitAnd(w2, 15), BitOr(BitOr(Command_3_0, HD44780_BACKLIGHT), HD44780_EN)),
       LAMBDA w3 :
  With(BitAnd(w3, BitNot(HD44780_EN)), LAMBDA w4 :
    Tx(Tx(Tx(Tx(m, w1, 1), w2, 1), w3, 1), w4, 1))))))))

\* iterations lo .. hi-1 of the busy-flag loop of HD44780_Send_Command; State is
\* HD44780_BUSY when the loop is entered, so HD44780_READY means that an
\* iteration has returned (the range is halved to keep the evaluation shallow)
RECURSIVE Send_Command_Poll(_, _, _)
Send_Command_Poll(m0, lo, hi) ==
  With(m0, LAMBDA m :
    IF m.hung \/ m.State = "HD44780_READY" \/ hi <= lo THEN m
    ELSE IF hi = lo + 1 THEN HD44780_Check_Status(m)
    ELSE Send_Command_Poll(Send_Command_Poll(m, lo, (lo + hi) \div 2), (lo + hi) \div 2, hi))

\* variant: the loop gives up one status read early
Send_Command_Confirm_Short(m) ==
  With(Send_Command_Poll(m, 0, BUSY_RETRIES - 1), LAMBDA s :
    IF s.State = "HD44780_READY" THEN s
    ELSE HD44780_Error_Handler([s EXCEPT !.State = "HD44780_TIMEOUT"]))

\* variant: an exhausted loop resets State itself and returns
Send_Command_Confirm_AutoReset(m) ==
  With(Send_Command_Poll(m, 0, BUSY_RETRIES), LAMBDA s :
    IF s.State = "HD44780_READY" THEN s
    ELSE [s EXCEPT !.State = "HD44780_READY"])

\* the loop, and the timeout after it
Send_Command_Confirm(m) ==
  With(Send_Command_Poll(m, 0, BUSY_RETRIES), LAMBDA s :
    IF s.State = "HD44780_READY" THEN s
    ELSE HD44780_Error_Handler([s EXCEPT !.State = "HD44780_TIMEOUT"]))

HD44780_Send_Command(m0, Command, CheckBusyFlag) ==
  With(m0, LAMBDA m :
    IF m.hung THEN m
    ELSE IF CheckBusyFlag
    THEN Send_Command_Confirm(Send_Command_Frame([m EXCEPT !.State = "HD44780_BUSY"], Command))
    ELSE [Send_Command_Frame([m EXCEPT !.State = "HD44780_BUSY"], Command)
            EXCEPT !.State = "HD44780_READY"])

\* the five framing writes of HD44780_Send_Data
Send_Data_Frame(m, Command0) ==
  With(Command0, LAMBDA Command :
  With(BitAnd(240, Command), LAMBDA Command_7_4 :
  With(BitAnd(240, U8(Command * 16)), LAMBDA Command_3_0 :
  With(BitOr(HD44780_BACKLIGHT, HD44780_RS), LAMBDA w0 :
  With(BitOr(w0, BitOr(BitOr(BitOr(Command_7_4, HD44780_BACKLIGHT), HD44780_EN),
                       HD44780_RS)), LAMBDA w1 :
  With(BitAnd(w1, BitNot(HD44780_EN)), LAMBDA w2 :
  With(BitOr(BitAnd(w2, 15),
             BitOr(BitOr(BitOr(Command_3_0, HD44780_BACKLIGHT), HD44780_EN), HD44780_RS)),
       LAMBDA w3 :
  With(BitAnd(w3, BitNot(HD44780_EN)), LAMBDA w4 :
    Tx(Tx(Tx(Tx(Tx(m, w0, 1), w1, 1), w2, 1), w3, 1), w4, 1)))))))))

\* iterations lo .. hi-1 of the busy-flag loop of HD44780_Send_Data; State is
\* HD44780_BUSY when the loop is entered, so HD44780_READY means that an
\* iteration has returned (the range is halved to keep the evaluation shallow)
RECURSIVE Send_Data_Poll(_, _, _)
Send_Data_Poll(m0, lo, hi) ==
  With(m0, LAMBDA m :
    IF m.hung \/ m.State = "HD44780_READY" \/ hi <= lo THEN m
    ELSE IF hi = lo + 1 THEN HD44780_Check_Status(m)
    ELSE Send_Data_Poll(Send_Data_Poll(m, lo, (lo + hi) \div 2), (lo + hi) \div 2, hi))

\* the loop, and the timeout after it
Send_Data_Confirm(m) ==
  With(Send_Data_Poll(m, 0, BUSY_RETRIES), LAMBDA s :
    IF s.State = "HD44780_READY" THEN s
    ELSE HD44780_Error_Handler([s EXCEPT !.State = "HD44780_TIMEOUT"]))

HD44780_Send_Data(m0, Command, CheckBusyFlag) ==
  With(m0, LAMBDA m :
    IF m.hung THEN m
    ELSE IF CheckBusyFlag
    THEN Send_Data_Confirm(Send_Data_Frame([m EXCEPT !.State = "HD44780_BUSY"], Command))
    ELSE [Send_Data_Frame([m EXCEPT !.State = "HD44780_BUSY"], Command)
            EXCEPT !.State = "HD44780_READY"])

\* variant: the second row is recognised from address 0x40 on
Get_Cursor_Position_RowAt64(m) ==
  With(HD44780_Check_Status(m), LAMBDA s :
    IF s.hung THEN s
    ELSE With(s.AddressCounter, LAMBDA AddressCopy :
      IF AddressCopy < 64
      THEN [s EXCEPT !.Cursor_Position = <<0, AddressCopy>>]
      ELSE [s EXCEPT !.Cursor_Position = <<1, U8(AddressCopy + 256 - 64)>>]))

HD44780_Get_Cursor_Position(m) ==
  With(HD44780_Check_Status(m), LAMBDA s :
    IF s.hung THEN s
    ELSE With(s.AddressCounter, LAMBDA AddressCopy :
      IF AddressCopy < 40
      THEN [s EXCEPT !.Cursor_Position = <<0, AddressCopy>>]
      ELSE [s EXCEPT !.Cursor_Position = <<1, U8(AddressCopy + 256 - 64)>>]))

\* Display_Handle->Text[index] = ch; a store outside the array is recorded in
\* idx and leaves Text as it is (what it would overwrite is not modelled)
Text_Store(m0, index, ch) ==
  With(m0, LAMBDA m :
    IF m.hung THEN m
    ELSE [m EXCEPT !.Text = IF index \in DOMAIN m.Text
                            THEN [m.Text EXCEPT ![index] = ch] ELSE m.Text,
                   !.idx = m.idx \cup {index}])

\* variant: only the first row of Text is cleared
Clear_Text_Buffer_FirstRow(m0) ==
  With(m0, LAMBDA m :
    IF m.hung THEN m
    ELSE [m EXCEPT !.Text = [i \in 0 .. (HD44780_NUM_ELEMENTS - 1) |->
                               IF i < HD44780_NUM_COLS THEN 0 ELSE m.Text[i]]])

Clear_Text_Buffer(m0) ==
  With(m0, LAMBDA m : IF m.hung THEN m ELSE [m EXCEPT !.Text = NoText])

(***************************************************************************)
(* Public functions.                                                       *)
(***************************************************************************)
UserCommands ==
  { "CLEAR_DISPLAY", "RETURN_HOME", "DISPLAY_ON", "DISPLAY_OFF",
    "CURSOR_ON", "CURSOR_OFF", "CURSOR_BLINK", "CURSOR_UNBLINK" }

\* variant: the second row is addressed without its DDRAM base 0x40
Set_Cursor_Position_NoRowBase(m0, row, column) ==
  With(m0, LAMBDA m :
    IF m.hung THEN m
    ELSE IF row >= HD44780_NUM_ROWS \/ column >= HD44780_NUM_COLS THEN m
    ELSE HD44780_Send_Command(m, BitOr(128, column), TRUE))

\* variant: the range check lets row NUM_ROWS and column NUM_COLS through
Set_Cursor_Position_Inclusive(m0, row, column) ==
  With(m0, LAMBDA m :
    IF m.hung THEN m
    ELSE IF row > HD44780_NUM_ROWS \/ column > HD44780_NUM_COLS THEN m
    ELSE IF row = 0
    THEN HD44780_Send_Command(m, BitOr(128, column), TRUE)
    ELSE HD44780_Send_Command(m, BitOr(BitOr(128, 64), column), TRUE))

HD44780_Set_Cursor_Position(m0, row, column) ==
  With(m0, LAMBDA m :
    IF m.hung THEN m
    ELSE IF row >= HD44780_NUM_ROWS \/ column >= HD44780_NUM_COLS THEN m
    ELSE IF row = 0
    THEN HD44780_Send_Command(m, BitOr(128, column), TRUE)
    ELSE HD44780_Send_Command(m, BitOr(BitOr(128, 64), column), TRUE))

\* the dispatch of HD44780_Transmit_Command while PowerState is LCD1602_ON
Transmit_Command_On(m, UserCommand) ==
  CASE UserCommand = "CLEAR_DISPLAY" ->
         With(Clear_Text_Buffer(HD44780_Send_Command(m, 1, TRUE)), LAMBDA s :
           IF s.hung THEN s ELSE [s EXCEPT !.Cursor_Position = <<0, 0>>])
    [] UserCommand = "RETURN_HOME" ->
         With(HD44780_Send_Command(m, 2, TRUE), LAMBDA s :
           IF s.hung THEN s ELSE [s EXCEPT !.Cursor_Position = <<0, 0>>])
    [] UserCommand = "DISPLAY_OFF" ->
         [HAL_I2C_Master_Transmit(m, 0) EXCEPT !.PowerState = "LCD1602_OFF"]
    [] UserCommand = "CURSOR_ON" -> HD44780_Send_Command(m, 14, TRUE)
    [] UserCommand = "CURSOR_OFF" -> HD44780_Send_Command(m, 12, TRUE)
    [] UserCommand = "CURSOR_BLINK" -> HD44780_Send_Command(m, 13, TRUE)
    [] UserCommand = "CURSOR_UNBLINK" -> HD44780_Send_Command(m, 12, TRUE)
    [] OTHER -> m

\* the dispatch of HD44780_Transmit_Command while PowerState is LCD1602_OFF
Transmit_Command_Off(m, UserCommand) ==
  CASE UserCommand = "DISPLAY_ON" ->
         [HAL_I2C_Master_Transmit(m, HD44780_BACKLIGHT) EXCEPT !.PowerState = "LCD1602_ON"]
    [] OTHER -> m

\* variant: the dispatch does not look at PowerState
Transmit_Command_AnyPower(m0, UserCommand) ==
  With(m0, LAMBDA m :
    IF m.hung THEN m ELSE Transmit_Command_On(m, UserCommand))

HD44780_Transmit_Command(m0, UserCommand) ==
  With(m0, LAMBDA m :
    IF m.hung THEN m
    ELSE IF m.PowerState = "LCD1602_ON" THEN Transmit_Command_On(m, UserCommand)
    ELSE IF m.PowerState = "LCD1602_OFF" THEN Transmit_Command_Off(m, UserCommand)
    ELSE m)

\* the eight raw writes of the software reset: 0x30 three times, then 0x20
Init_Reset(m) ==
  LET a == BitOr(48, HD44780_EN)
      b == BitAnd(a, BitNot(HD44780_EN))
      c == BitOr(32, HD44780_EN)
      d == BitAnd(c, BitNot(HD44780_EN))
  IN Tx(Tx(Tx(Tx(Tx(Tx(Tx(Tx(m, a, 1), b, 5), a, 1), b, 1), a, 1), b, 1), c, 1), d, 1)

\* the five confirmed commands of the software reset
Init_Commands(m) ==
  LET WriteCommand == IF HD44780_NUM_ROWS = 2
                      THEN BitOr(HD44780_FUNCTION_SET, 8)
                      ELSE HD44780_FUNCTION_SET
  IN HD44780_Send_Command(
       HD44780_Send_Command(
         HD44780_Send_Command(
           HD44780_Send_Command(
             HD44780_Send_Command(m, WriteCommand, TRUE),
             8, TRUE),
           1, TRUE),
         6, TRUE),
       12, TRUE)

\* variant: the cursor cache is reset before the probe is looked at
Init_ResetsCursorFirst(m0, DeviceReady) ==
  With([m0 EXCEPT !.Cursor_Position = <<0, 0>>], LAMBDA m :
    IF DeviceReady
    THEN With([HAL_Delay(m, 45) EXCEPT !.HW061_I2C_Handle = "hi2c1"], LAMBDA s0 :
         With(HD44780_Transmit_Command(Init_Commands(Init_Reset(s0)), "CURSOR_ON"),
              LAMBDA s7 :
           IF s7.hung THEN s7
           ELSE [s7 EXCEPT !.PowerState = "LCD1602_ON", !.ret = 1]))
    ELSE [m EXCEPT !.ret = 0])

HD44780_Init(m0, DeviceReady) ==
  With(m0, LAMBDA m :
    IF DeviceReady
    THEN With([HAL_Delay(m, 45) EXCEPT !.HW061_I2C_Handle = "hi2c1",
                                       !.Cursor_Position = <<0, 0>>], LAMBDA s0 :
         With(HD44780_Transmit_Command(Init_Commands(Init_Reset(s0)), "CURSOR_ON"),
              LAMBDA s7 :
           IF s7.hung THEN s7
           ELSE [s7 EXCEPT !.PowerState = "LCD1602_ON", !.ret = 1]))
    ELSE [m EXCEPT !.ret = 0])

\* variant: the capacity test lets one more character through
Print_Step_LateStop(m0, str, startindex, i) ==
  With(m0, LAMBDA m :
    IF m.hung \/ m.done THEN m
    ELSE IF startindex + i > HD44780_NUM_ELEMENTS
    THEN [HD44780_Set_Cursor_Position(m, 0, 0) EXCEPT !.done = TRUE]
    ELSE With(HD44780_Send_Data(m, str[i + 1], TRUE), LAMBDA s1 :
         With(Text_Store(s1, startindex + i, str[i + 1]), LAMBDA s2 :
           IF s2.AddressCounter = HD44780_NUM_COLS
           THEN HD44780_Set_Cursor_Position(s2, 1, 0)
           ELSE s2)))

\* variant: the characters are stored from the start of Text
Print_Step_FromZero(m0, str, startindex, i) ==
  With(m0, LAMBDA m :
    IF m.hung \/ m.done THEN m
    ELSE IF startindex + i > HD44780_NUM_ELEMENTS - 1
    THEN [HD44780_Set_Cursor_Position(m, 0, 0) EXCEPT !.done = TRUE]
    ELSE With(HD44780_Send_Data(m, str[i + 1], TRUE), LAMBDA s1 :
         With(Text_Store(s1, i, str[i + 1]), LAMBDA s2 :
           IF s2.AddressCounter = HD44780_NUM_COLS
           THEN HD44780_Set_Cursor_Position(s2, 1, 0)
           ELSE s2)))

\* variant: the capacity test fires one cell early
Print_Step_Early(m0, str, startindex, i) ==
  With(m0, LAMBDA m :
    IF m.hung \/ m.done THEN m
    ELSE IF startindex + i > HD44780_NUM_ELEMENTS - 2
    THEN [HD44780_Set_Cursor_Position(m, 0, 0) EXCEPT !.done = TRUE]
    ELSE With(HD44780_Send_Data(m, str[i + 1], TRUE), LAMBDA s1 :
         With(Text_Store(s1, startindex + i, str[i + 1]), LAMBDA s2 :
           IF s2.AddressCounter = HD44780_NUM_COLS
           THEN HD44780_Set_Cursor_Position(s2, 1, 0)
           ELSE s2)))

\* variant: the end of the first row is not noticed
Print_Step_NoWrap(m0, str, startindex, i) ==
  With(m0, LAMBDA m :
    IF m.hung \/ m.done THEN m
    ELSE IF startindex + i > HD44780_NUM_ELEMENTS - 1
    THEN [HD44780_Set_Cursor_Position(m, 0, 0) EXCEPT !.done = TRUE]
    ELSE With(HD44780_Send_Data(m, str[i + 1], TRUE), LAMBDA s1 :
           Text_Store(s1, startindex + i, str[i + 1])))

\* one iteration of the for loop of HD44780_Print; m.done: the function has
\* executed its return statement
Print_Step(m0, str, startindex, i) ==
  With(m0, LAMBDA m :
    IF m.hung \/ m.done THEN m
    ELSE IF startindex + i > HD44780_NUM_ELEMENTS - 1
    THEN [HD44780_Set_Cursor_Position(m, 0, 0) EXCEPT !.done = TRUE]
    ELSE With(HD44780_Send_Data(m, str[i + 1], TRUE), LAMBDA s1 :
         With(Text_Store(s1, startindex + i, str[i + 1]), LAMBDA s2 :
           IF s2.AddressCounter = HD44780_NUM_COLS
           THEN HD44780_Set_Cursor_Position(s2, 1, 0)
           ELSE s2)))

\* iterations lo .. hi-1 of the loop (the range is halved to keep the
\* evaluation shallow)
RECURSIVE Print_Loop(_, _, _, _, _)
Print_Loop(m0, str, startindex, lo, hi) ==
  With(m0, LAMBDA m :
    IF hi <= lo THEN m
    ELSE IF hi = lo + 1 THEN Print_Step(m, str, startindex, lo)
    ELSE Print_Loop(Print_Loop(m, str, startindex, lo, (lo + hi) \div 2),
                    str, startindex, (lo + hi) \div 2, hi))

\* variant: the cursor is not read back at the end
Print_NoFinalRead(m, str) ==
  With(HD44780_Get_Cursor_Position(m), LAMBDA s :
  With(U8(s.Cursor_Position[1] * HD44780_NUM_COLS + s.Cursor_Position[2]),
       LAMBDA startindex :
  With(Print_Loop(s, str, startindex, 0, Len(str)), LAMBDA t :
    [t EXCEPT !.done = FALSE])))

HD44780_Print(m, str) ==
  With(HD44780_Get_Cursor_Position(m), LAMBDA s :
  With(U8(s.Cursor_Position[1] * HD44780_NUM_COLS + s.Cursor_Position[2]),
       LAMBDA startindex :
  With(Print_Loop(s, str, startindex, 0, Len(str)), LAMBDA t :
    IF t.done THEN [t EXCEPT !.done = FALSE]
    ELSE HD44780_Get_Cursor_Position(t))))

HD44780_Read_Character(m0, row, column) ==
  With(m0, LAMBDA m :
    IF row >= HD44780_NUM_ROWS \/ column >= HD44780_NUM_COLS
    THEN [m EXCEPT !.ret = 0]
    ELSE With(U8(row * HD44780_NUM_COLS + column), LAMBDA index :
           [m EXCEPT !.ret = m.Text[index], !.idx = m.idx \cup {index}]))

HD44780_Get_Row_Index(m) == m.Cursor_Position[1]

HD44780_Get_Column_Index(m) == m.Cursor_Position[2]

\* variant: every shift is confirmed by status reads
RECURSIVE Animate_Loop_Confirmed(_, _, _)
Animate_Loop_Confirmed(m0, lo, hi) ==
  With(m0, LAMBDA m :
    IF hi <= lo THEN m
    ELSE IF hi = lo + 1 THEN HAL_Delay(HD44780_Send_Command(m, 28, TRUE), 100)
    ELSE Animate_Loop_Confirmed(Animate_Loop_Confirmed(m, lo, (lo + hi) \div 2),
                                (lo + hi) \div 2, hi))

\* iterations lo .. hi-1 of the shift loop (halved as above)
RECURSIVE Animate_Loop(_, _, _)
Animate_Loop(m0, lo, hi) ==
  With(m0, LAMBDA m :
    IF hi <= lo THEN m
    ELSE IF hi = lo + 1 THEN HAL_Delay(HD44780_Send_Command(m, 28, FALSE), 100)
    ELSE Animate_Loop(Animate_Loop(m, lo, (lo + hi) \div 2), (lo + hi) \div 2, hi))

\* variant: a sweep is one shift short
Animate_Text_ShortSweep(m0, NumberOfScrolls) ==
  With(m0, LAMBDA m :
    LET TextPresent == \E i \in 0 .. (HD44780_NUM_ELEMENTS - 1) : m.Text[i] # 0
        BytesPerRow == 80 \div HD44780_NUM_ROWS - 1
        NumberOfShifts == NumberOfScrolls * BytesPerRow
    IN IF TextPresent THEN Animate_Loop(m, 0, NumberOfShifts) ELSE m)

HD44780_Animate_Text(m0, NumberOfScrolls) ==
  With(m0, LAMBDA m :
    LET TextPresent == \E i \in 0 .. (HD44780_NUM_ELEMENTS - 1) : m.Text[i] # 0
        BytesPerRow == 80 \div HD44780_NUM_ROWS
        NumberOfShifts == NumberOfScrolls * BytesPerRow
    IN IF TextPresent THEN Animate_Loop(m, 0, NumberOfShifts) ELSE m)

(***************************************************************************)
(* State.  The handle is a zero-initialised global (README, main.c), the   *)
(* display has just been powered.                                          *)
(*   pc     "main": between two calls; "Error_Handler": the last call is   *)
(*          spinning in HD44780_Error_Handler                              *)
(*   last   the last public call and what it returned                      *)
(*   calls  the number of public calls made                                *)
(***************************************************************************)
VARIABLES State, PowerState, Cursor_Position, Text, AddressCounter,
          HW061_I2C_Handle, lcd, bus, hooks, idx, pc, last, calls

handle == <<State, PowerState, Cursor_Position, Text, HW061_I2C_Handle>>
vars == <<State, PowerState, Cursor_Position, Text, AddressCounter,
          HW061_I2C_Handle, lcd, bus, hooks, idx, pc, last, calls>>

NoCall == [op |-> "none", row |-> 0, col |-> 0, cmd |-> "", str |-> << >>,
           n |-> 0, ret |-> -1]

\* inputs
Str(n) == [i \in 1 .. n |-> 65 + ((i - 1) % 26)]
StrLens == {0, 1, 3, HD44780_NUM_COLS, HD44780_NUM_COLS + 1, MaxStrLen - 1, MaxStrLen}
Strings == {Str(n) : n \in StrLens}
Rows == 0 .. MaxRow
Cols == 0 .. MaxCol
ReadCols == {0, 5, HD44780_NUM_COLS - 1, MaxCol}
Lags == 0 .. MaxLag
Faults == 0 .. MaxFault

Init ==
  /\ State = "HD44780_READY"
  /\ PowerState = "LCD1602_ON"
  /\ Cursor_Position = <<0, 0>>
  /\ Text = NoText
  /\ AddressCounter = 0
  /\ HW061_I2C_Handle = "NULL"
  /\ lcd = PowerOnLcd
  /\ bus = << >>
  /\ hooks = 0
  /\ idx = {}
  /\ pc = "main"
  /\ last = NoCall
  /\ calls = 0

\* the machine at the entry of a call, with the environment's choices for it
Entry(lag, fault) ==
  [ State |-> State, PowerState |-> PowerState, Cursor_Position |-> Cursor_Position,
    Text |-> Text, AddressCounter |-> AddressCounter,
    HW061_I2C_Handle |-> HW061_I2C_Handle,
    lcd |-> [lcd EXCEPT !.lag = lag, !.faultAt = fault, !.log = << >>],
    bus |-> << >>, hooks |-> 0, hung |-> FALSE, done |-> FALSE, ret |-> -1,
    errAt |-> 0, junk |-> 0, rb |-> 0, idx |-> {} ]

\* the machine as it is between calls
Now == Entry(0, 0)

\* the call is over (or spins in the error handler): r becomes the state
Return(r, call) ==
  /\ State' = r.State
  /\ PowerState' = r.PowerState
  /\ Cursor_Position' = r.Cursor_Position
  /\ Text' = r.Text
  /\ AddressCounter' = r.AddressCounter
  /\ HW061_I2C_Handle' = r.HW061_I2C_Handle
  /\ lcd' = [r.lcd EXCEPT !.lag = 0, !.faultAt = 0]
  /\ bus' = r.bus
  /\ hooks' = r.hooks
  /\ idx' = r.idx
  /\ pc' = IF r.hung THEN "Error_Handler" ELSE "main"
  /\ last' = [call EXCEPT !.ret = r.ret]
  /\ calls' = calls + 1

CanCall == pc = "main"
Ready == CanCall /\ HW061_I2C_Handle # "NULL"

InitCall(DeviceReady, lag, fault) ==
  /\ CanCall
  /\ \E r \in {HD44780_Init(Entry(lag, fault), DeviceReady)} :
       Return(r, [NoCall EXCEPT !.op = "init", !.n = IF DeviceReady THEN 1 ELSE 0])

TransmitCommandCall(UserCommand, lag, fault) ==
  /\ Ready
  /\ \E r \in {HD44780_Transmit_Command(Entry(lag, fault), UserCommand)} :
       Return(r, [NoCall EXCEPT !.op = "transmit_command", !.cmd = UserCommand])

PrintCall(str, fault) ==
  /\ Ready
  /\ \E r \in {HD44780_Print(Entry(0, fault), str)} :
       Return(r, [NoCall EXCEPT !.op = "print", !.str = str])

SetCursorPositionCall(row, column, fault) ==
  /\ Ready
  /\ \E r \in {HD44780_Set_Cursor_Position(Entry(0, fault), row, column)} :
       Return(r, [NoCall EXCEPT !.op = "set_cursor_position", !.row = row, !.col = column])

ReadCharacterCall(row, column) ==
  /\ Ready
  /\ \E r \in {HD44780_Read_Character(Entry(0, 0), row, column)} :
       Return(r, [NoCall EXCEPT !.op = "read_character", !.row = row, !.col = column])

AnimateTextCall(NumberOfScrolls, fault) ==
  /\ Ready
  /\ \E r \in {HD44780_Animate_Text(Entry(0, fault), NumberOfScrolls)} :
       Return(r, [NoCall EXCEPT !.op = "animate_text", !.n = NumberOfScrolls])

\* one more turn of the empty loop of HD44780_Error_Handler
ErrorHandlerSpin ==
  /\ pc = "Error_Handler"
  /\ State # "HD44780_READY"
  /\ UNCHANGED vars

\* at most MaxCalls calls are followed
Next ==
  \/ \E d \in BOOLEAN, lag \in Lags, f \in Faults :
       calls < MaxCalls /\ InitCall(d, lag, f)
  \/ \E c \in UserCommands, lag \in Lags, f \in Faults :
       /\ calls < MaxCalls
       /\ lag = 0 \/ c \in {"CLEAR_DISPLAY", "RETURN_HOME"}
       /\ TransmitCommandCall(c, lag, f)
  \/ \E s \in Strings, f \in Faults : calls < MaxCalls /\ PrintCall(s, f)
  \/ \E r \in Rows, c \in Cols, f \in Faults :
       calls < MaxCalls /\ SetCursorPositionCall(r, c, f)
  \/ \E r \in Rows, c \in ReadCols : calls < MaxCalls /\ ReadCharacterCall(r, c)
  \/ \E n \in 0 .. MaxScrolls, f \in Faults :
       calls < MaxCalls /\ AnimateTextCall(n, f)
  \/ ErrorHandlerSpin

Spec == Init /\ [][Next]_vars

(***************************************************************************)
(* The same driver on a bus that can fail: one bus transaction of a call   *)
(* returns HAL_ERROR.  The driver looks at no return value of the HAL, and *)
(* the ReadBuffer of a status read is not initialised.                     *)
(***************************************************************************)
ErrAts == 1 .. MaxErrAt
JunkBytes == {0, 255}

EntryBus(errAt, junk) == [Entry(0, 0) EXCEPT !.errAt = errAt, !.junk = junk]

SetCursorPositionBusCall(row, column, errAt, junk) ==
  /\ Ready
  /\ \E r \in {HD44780_Set_Cursor_Position(EntryBus(errAt, junk), row, column)} :
       Return(r, [NoCall EXCEPT !.op = "set_cursor_position", !.row = row,
                                !.col = column, !.n = errAt])

PrintBusCall(str, errAt, junk) ==
  /\ Ready
  /\ \E r \in {HD44780_Print(EntryBus(errAt, junk), str)} :
       Return(r, [NoCall EXCEPT !.op = "print", !.str = str, !.n = errAt])

NextBus ==
  \/ \E f \in Faults : calls < MaxCalls /\ InitCall(TRUE, 0, f)
  \/ \E r \in 0 .. (HD44780_NUM_ROWS - 1), c \in {0, 5}, e \in ErrAts, j \in JunkBytes :
       calls < MaxCalls /\ SetCursorPositionBusCall(r, c, e, j)
  \/ \E n \in {1, 3}, e \in ErrAts, j \in JunkBytes :
       calls < MaxCalls /\ PrintBusCall(Str(n), e, j)
  \/ ErrorHandlerSpin

SpecBus == Init /\ [][NextBus]_vars

(***************************************************************************)
(* Longer call sequences over few inputs: a controller that stops          *)
(* answering while animate_text shifts the display (its sends are not      *)
(* confirmed) is met by the calls that follow.                             *)
(***************************************************************************)
NextDeep ==
  \/ calls < MaxDeepCalls /\ InitCall(TRUE, 0, 0)
  \/ \E n \in {0, 1} : calls < MaxDeepCalls /\ PrintCall(Str(n), 0)
  \/ \E r \in 0 .. (HD44780_NUM_ROWS - 1), c \in {0, HD44780_NUM_COLS - 1} :
       calls < MaxDeepCalls /\ SetCursorPositionCall(r, c, 0)
  \/ \E c \in UserCommands : calls < MaxDeepCalls /\ TransmitCommandCall(c, 0, 0)
  \/ \E f \in Faults : calls < MaxDeepCalls /\ AnimateTextCall(1, f)
  \/ ErrorHandlerSpin

SpecDeep == Init /\ [][NextDeep]_vars

(***************************************************************************)
(* The driver on a controller whose address counter is anything its seven  *)
(* bits can hold when HD44780_Print is called: the status read reports the *)
(* counter as it is, whoever addressed the controller last.                *)
(***************************************************************************)
Addrs == 0 .. 127

EntryAt(ac) == [Entry(0, 0) EXCEPT !.lcd.ac = ac]

PrintAtCall(ac, str) ==
  /\ Ready
  /\ \E r \in {HD44780_Print(EntryAt(ac), str)} :
       Return(r, [NoCall EXCEPT !.op = "print", !.str = str, !.n = ac])

NextAddr ==
  \/ calls < MaxAddrCalls /\ InitCall(TRUE, 0, 0)
  \/ \E a \in Addrs, n \in {0, 1, HD44780_NUM_COLS + 1, MaxStrLen} :
       calls < MaxAddrCalls /\ PrintAtCall(a, Str(n))
  \/ \E r \in Rows, c \in ReadCols : calls <= MaxAddrCalls /\ ReadCharacterCall(r, c)

SpecAddr == Init /\ [][NextAddr]_vars

(***************************************************************************)
(* One init of the zeroed handle, then printing, cursor moves, clear       *)
(* display and return home only.                                           *)
(***************************************************************************)
NextMirror ==
  \/ \E lag \in {0, MaxLag} :
       calls < MaxDeepCalls /\ HW061_I2C_Handle = "NULL" /\ InitCall(TRUE, lag, 0)
  \/ \E s \in Strings : calls < MaxDeepCalls /\ PrintCall(s, 0)
  \/ \E r \in 0 .. (HD44780_NUM_ROWS - 1), c \in {0, 5, HD44780_NUM_COLS - 1} :
       calls < MaxDeepCalls /\ SetCursorPositionCall(r, c, 0)
  \/ \E c \in {"CLEAR_DISPLAY", "RETURN_HOME"}, lag \in {0, MaxLag}, f \in {0, 1} :
       calls < MaxDeepCalls /\ (lag = 0 \/ f = 0) /\ TransmitCommandCall(c, lag, f)
  \/ ErrorHandlerSpin

SpecMirror == Init /\ [][NextMirror]_vars

(***************************************************************************)
(* Properties.                                                             *)
(***************************************************************************)
\* the row / column translation of a DDRAM address
Translation(address) ==
  IF address < DDRAM_LINE THEN <<0, address>> ELSE <<1, address - DDRAM_ROW1>>

InRange(row, column) == row < HD44780_NUM_ROWS /\ column < HD44780_NUM_COLS

\* the public call c has just returned to the caller
Returned(c) == pc = "main" /\ calls > 0 /\ last.op = c

\* this step is a public call c (it returns, or it spins in the handler)
Calling(c) == calls' = calls + 1 /\ last'.op = c

\* C1: after an in-range set_cursor_position(row, col) has returned, a status
\* read finds the controller ready and reports an address counter whose
\* row / column translation is exactly (row, col)
C1_SetCursorRoundTrip ==
  Returned("set_cursor_position") /\ InRange(last.row, last.col) =>
    \E s \in {HD44780_Check_Status(Now)} :
      /\ s.State = "HD44780_READY"
      /\ Translation(s.AddressCounter) = <<last.row, last.col>>

C1_Witness ==
  /\ Returned("set_cursor_position")
  /\ last.row = 1 /\ last.col = HD44780_NUM_COLS - 1
  /\ HD44780_Check_Status(Now).AddressCounter = DDRAM_ROW1 + HD44780_NUM_COLS - 1

\* C2: a set_cursor_position or read_character whose row is >= 2 or whose
\* column is >= 16 performs no bus transaction and leaves State, PowerState,
\* Cursor_Position, Text and AddressCounter as they were; read_character
\* returns the null character
C2_OutOfRangeNoOp ==
  [][ (Calling("set_cursor_position") \/ Calling("read_character"))
      /\ ~InRange(last'.row, last'.col)
      => /\ bus' = << >>
         /\ UNCHANGED <<State, PowerState, Cursor_Position, Text, AddressCounter>>
         /\ pc' = "main"
         /\ (last'.op = "read_character" => last'.ret = 0) ]_vars

C2_Witness ==
  /\ Returned("set_cursor_position")
  /\ last.row = 0 /\ last.col = HD44780_NUM_COLS
  /\ bus = << >>
  /\ \E i \in DOMAIN Text : Text[i] # 0

\* the linear index of the cell a DDRAM address shows
LinearIndex(address) ==
  Translation(address)[1] * HD44780_NUM_COLS + Translation(address)[2]

\* the bytes the controller took as data, in order
DataBytes(log) ==
  LET d == SelectSeq(log, LAMBDA e : e[1] = 1)
  IN [i \in 1 .. Len(d) |-> d[i][2]]

\* C3: when print(text) returns and the text is longer than the cells that
\* remain from the cursor's linear index to 32, exactly the characters that
\* fit were sent as data and stored in Text at consecutive indices, nothing
\* else of Text changed, the last instruction was set DDRAM address 0, and
\* the controller's address counter is 0
C3_PrintTruncates ==
  [][ Calling("print") /\ pc' = "main" =>
      LET str == last'.str
          start == LinearIndex(lcd.ac)
          fit == HD44780_NUM_ELEMENTS - start
      IN Len(str) > fit =>
           /\ DataBytes(lcd'.log) = SubSeq(str, 1, fit)
           /\ \A i \in 0 .. (HD44780_NUM_ELEMENTS - 1) :
                Text'[i] = IF i >= start /\ i < start + fit
                           THEN str[i - start + 1] ELSE Text[i]
           /\ Len(lcd'.log) > 0
           /\ lcd'.log[Len(lcd'.log)] = <<0, 128>>
           /\ lcd'.ac = 0 ]_vars

\* a print of 17 characters from (1, 5) has stored its first 11
C3_Witness ==
  /\ Returned("print")
  /\ Len(last.str) = HD44780_NUM_COLS + 1
  /\ Len(DataBytes(lcd.log)) = 11
  /\ Text[HD44780_NUM_COLS + 5] = last.str[1]
  /\ Text[HD44780_NUM_ELEMENTS - 1] = last.str[11]
  /\ lcd.ac = 0

\* C4: whenever print has returned, the cached cursor that get_row_index /
\* get_column_index report is the row / column translation of the
\* controller's address counter
C4_PrintCachesCursor ==
  Returned("print") =>
    <<HD44780_Get_Row_Index(Now), HD44780_Get_Column_Index(Now)>> = Translation(lcd.ac)

\* the cell at which a print called now would start
PrintStart ==
  LET s == HD44780_Get_Cursor_Position(Now)
  IN U8(s.Cursor_Position[1] * HD44780_NUM_COLS + s.Cursor_Position[2])

\* the cached cursor, the controller's cursor and the start of the next print
\* are all at position p
CursorAgrees(p) ==
  /\ <<HD44780_Get_Row_Index(Now), HD44780_Get_Column_Index(Now)>> = p
  /\ Translation(lcd.ac) = p
  /\ PrintStart = p[1] * HD44780_NUM_COLS + p[2]

\* C5: after an in-range set_cursor_position(r, c) has returned, and after an
\* accepted transmit_command(RETURN_HOME) has returned, get_row_index /
\* get_column_index, the controller's cursor and the start position of the
\* next print all are (r, c), respectively (0, 0)
C5_CursorCacheAfterMove ==
  /\ Returned("set_cursor_position") /\ InRange(last.row, last.col)
       => CursorAgrees(<<last.row, last.col>>)
  /\ Returned("transmit_command") /\ last.cmd = "RETURN_HOME"
       /\ PowerState = "LCD1602_ON" /\ bus # << >>
       => CursorAgrees(<<0, 0>>)

\* the last n entries of a sequence
Suffix(seq, n) == SubSeq(seq, Len(seq) - n + 1, Len(seq))

\* the number of status reads among bus transactions (two receives each)
StatusReads(b) == Len(SelectSeq(b, LAMBDA e : e[1] = "R")) \div 2

\* C6: every successful init has made the controller execute, last and in
\* this order, function set 0x28, display off 0x08, clear 0x01, entry mode
\* 0x06, display on 0x0C and cursor on 0x0E, each with a busy confirmation,
\* and returns with PowerState LCD1602_ON and State HD44780_READY
C6_InitSequence ==
  Returned("init") /\ last.ret = 1 =>
    /\ Len(lcd.log) >= 6
    /\ Suffix(lcd.log, 6) = << <<0, 40>>, <<0, 8>>, <<0, 1>>, <<0, 6>>, <<0, 12>>, <<0, 14>> >>
    /\ StatusReads(bus) >= 6
    /\ PowerState = "LCD1602_ON"
    /\ State = "HD44780_READY"

\* C7: after every successful init, read_character returns the null
\* character for every in-range (row, col)
C7_InitClearsText ==
  Returned("init") /\ last.ret = 1 =>
    \A r \in 0 .. (HD44780_NUM_ROWS - 1), c \in 0 .. (HD44780_NUM_COLS - 1) :
      HD44780_Read_Character(Now, r, c).ret = 0

\* bus transactions b hold, right after the last write of a frame, 20 status
\* reads in a row that all report the busy flag (a status read is seven
\* transactions, the third of which receives BF and the high nibble)
TimedOut(b) ==
  \E j \in 2 .. (Len(b) - 7 * BUSY_RETRIES + 1) :
    /\ b[j - 1][1] = "W"
    /\ Bit(b[j - 1][2], 1) = 0
    /\ \A k \in 0 .. (BUSY_RETRIES - 1) :
         /\ b[j + 7 * k + 2][1] = "R"
         /\ Bit(b[j + 7 * k + 2][2], 7) = 1

\* C8: a call in which a confirmed send saw the busy flag on all 20 polls
\* ends with State HD44780_TIMEOUT, one entry into HD44780_Error_Handler and
\* the caller inside it; from then on State stays HD44780_TIMEOUT and no call
\* returns or starts
C8_TimeoutHangs ==
  [][ /\ (calls' = calls + 1 /\ TimedOut(bus')
           => State' = "HD44780_TIMEOUT" /\ hooks' = 1 /\ pc' = "Error_Handler")
      /\ (State = "HD44780_TIMEOUT"
           => State' = "HD44780_TIMEOUT" /\ pc' = "Error_Handler" /\ calls' = calls)
    ]_vars

\* a data send of print has timed out
C8_Witness ==
  /\ last.op = "print"
  /\ TimedOut(bus)
  /\ State = "HD44780_TIMEOUT"
  /\ hooks = 1
  /\ pc = "Error_Handler"

\* the commands transmit_command acts on in a power state
Accepted(power, c) ==
  IF power = "LCD1602_ON" THEN c # "DISPLAY_ON" ELSE c = "DISPLAY_ON"

\* C9: transmit_command(c) acts exactly when c is accepted in the current
\* PowerState (LCD1602_ON: all but DISPLAY_ON; LCD1602_OFF: only DISPLAY_ON);
\* a command that is not accepted makes no bus transaction and changes
\* nothing; DISPLAY_OFF leads to LCD1602_OFF, DISPLAY_ON back to LCD1602_ON,
\* no other command changes PowerState
C9_CommandAcceptance ==
  [][ Calling("transmit_command") =>
      LET c == last'.cmd
          acc == Accepted(PowerState, c)
      IN /\ acc => bus' # << >>
         /\ ~acc => /\ bus' = << >>
                     /\ UNCHANGED <<State, PowerState, Cursor_Position, Text,
                                    AddressCounter, HW061_I2C_Handle>>
                     /\ lcd' = [lcd EXCEPT !.log = << >>]
                     /\ pc' = "main"
         /\ acc /\ c = "DISPLAY_OFF" => PowerState' = "LCD1602_OFF"
         /\ acc /\ c = "DISPLAY_ON" => PowerState' = "LCD1602_ON"
         /\ c \notin {"DISPLAY_OFF", "DISPLAY_ON"} => PowerState' = PowerState ]_vars

\* DISPLAY_OFF and then DISPLAY_ON: the power state is LCD1602_ON again
C9_Witness ==
  /\ Returned("transmit_command")
  /\ last.cmd = "DISPLAY_ON"
  /\ bus = << <<"W", HD44780_BACKLIGHT>> >>
  /\ PowerState = "LCD1602_ON"
  /\ calls = 3

\* C10: while PowerState is LCD1602_OFF, after a print, set_cursor_position,
\* animate_text, read_character or transmit_command the call has written no
\* byte with the backlight bit (bit 3) to the expander and the backlight pin
\* is low
C10_BacklightStaysOff ==
  /\ PowerState = "LCD1602_OFF"
  /\ last.op \in {"print", "set_cursor_position", "animate_text", "read_character",
                  "transmit_command"}
  => /\ \A i \in DOMAIN bus : bus[i][1] = "W" => Bit(bus[i][2], 3) = 0
     /\ Bit(lcd.pins, 3) = 0

\* C11: when transmit_command(CLEAR_DISPLAY), issued with PowerState
\* LCD1602_ON, has returned, read_character returns the null character for
\* every in-range (row, col) and get_row_index and get_column_index return 0
C11_ClearDisplayClearsMirror ==
  [][ Calling("transmit_command") /\ last'.cmd = "CLEAR_DISPLAY"
      /\ PowerState = "LCD1602_ON" /\ pc' = "main"
      => /\ \A r \in 0 .. (HD44780_NUM_ROWS - 1), c \in 0 .. (HD44780_NUM_COLS - 1) :
              HD44780_Read_Character(Now, r, c)'.ret = 0
         /\ HD44780_Get_Row_Index(Now)' = 0
         /\ HD44780_Get_Column_Index(Now)' = 0 ]_vars

\* a clear display that needed two status reads has returned: the mirror is
\* empty and the cached cursor is (0, 0)
C11_Witness ==
  /\ Returned("transmit_command")
  /\ last.cmd = "CLEAR_DISPLAY"
  /\ calls = 3
  /\ StatusReads(bus) = 2
  /\ lcd.log = << <<0, 1>> >>
  /\ Text = NoText
  /\ Cursor_Position = <<0, 0>>

\* C12: a print of n characters that starts with the controller's cursor at
\* an in-range (r, c) with n < 16 - c, and returns, has stored the string in
\* Text at indices r*16+c .. r*16+c+n-1, has changed no other slot, and
\* leaves the cached cursor at (r, c + n)
C12_PrintShort ==
  [][ Calling("print") /\ pc' = "main" =>
      LET str == last'.str
          n == Len(str)
          r == Translation(lcd.ac)[1]
          c == Translation(lcd.ac)[2]
          start == r * HD44780_NUM_COLS + c
      IN InRange(r, c) /\ n < HD44780_NUM_COLS - c =>
           /\ \A i \in 0 .. (HD44780_NUM_ELEMENTS - 1) :
                Text'[i] = IF i >= start /\ i < start + n
                           THEN str[i - start + 1] ELSE Text[i]
           /\ HD44780_Get_Row_Index(Now)' = r
           /\ HD44780_Get_Column_Index(Now)' = c + n ]_vars

\* three characters printed from (1, 5)
C12_Witness ==
  /\ Returned("print")
  /\ Len(last.str) = 3
  /\ Text[HD44780_NUM_COLS + 5] = last.str[1]
  /\ Text[HD44780_NUM_COLS + 7] = last.str[3]
  /\ Cursor_Position = <<1, 8>>
  /\ lcd.ac = DDRAM_ROW1 + 8

\* the DDRAM address of the cell with linear index k
CellAddress(k) ==
  IF k < HD44780_NUM_COLS THEN k ELSE DDRAM_ROW1 + (k - HD44780_NUM_COLS)

\* C13: a print of n characters that starts on row 0 at column c, reaches
\* column 15 (n >= 16 - c), fits the display (c + n <= 32) and returns has
\* made the controller receive the first 16 - c characters, then set DDRAM
\* address 0x40 (command 0xC0), then the other characters, each character
\* once and in order; character i is in the DDRAM cell and in the Text slot
\* of linear index c + i - 1, and no other Text slot changed
C13_PrintWraps ==
  [][ Calling("print") /\ pc' = "main" =>
      LET str == last'.str
          n == Len(str)
          c == lcd.ac
          first == HD44780_NUM_COLS - c
      IN c < HD44780_NUM_COLS /\ n >= first /\ c + n <= HD44780_NUM_ELEMENTS =>
           /\ lcd'.log = [k \in 1 .. (n + 1) |->
                            IF k <= first THEN <<1, str[k]>>
                            ELSE IF k = first + 1 THEN <<0, 192>>
                            ELSE <<1, str[k - 1]>>]
           /\ \A i \in 1 .. n :
                /\ lcd'.ddram[CellAddress(c + i - 1)] = str[i]
                /\ Text'[c + i - 1] = str[i]
           /\ \A j \in 0 .. (HD44780_NUM_ELEMENTS - 1) :
                j < c \/ j >= c + n => Text'[j] = Text[j] ]_vars

\* seventeen characters printed from (0, 5): the twelfth is at (1, 0)
C13_Witness ==
  /\ Returned("print")
  /\ Len(last.str) = HD44780_NUM_COLS + 1
  /\ lcd.ddram[HD44780_NUM_COLS - 1] = last.str[11]
  /\ lcd.ddram[DDRAM_ROW1] = last.str[12]
  /\ Text[HD44780_NUM_COLS] = last.str[12]
  /\ lcd.ac = DDRAM_ROW1 + 6

\* the four bytes that frame an 8-bit payload: high nibble with EN, high
\* nibble, low nibble with EN, low nibble; backlight set, R/W clear, RS as
\* given
FrameBytes(payload, rs) ==
  LET hi == payload \div 16
      lo == payload % 16
      ctl == HD44780_BACKLIGHT + rs * HD44780_RS
  IN << hi * 16 + ctl + HD44780_EN, hi * 16 + ctl,
        lo * 16 + ctl + HD44780_EN, lo * 16 + ctl >>

\* C14: animate_text(scrolls) makes no bus transaction when Text is all null;
\* otherwise its bus transactions are exactly scrolls * 40 framings of the
\* display shift 0x1C, without any read; AddressCounter, Cursor_Position,
\* Text and PowerState are unchanged
C14_AnimateShifts ==
  [][ Calling("animate_text") =>
      LET shifts == IF Text = NoText THEN 0
                    ELSE last'.n * (80 \div HD44780_NUM_ROWS)
      IN /\ bus' = [i \in 1 .. (4 * shifts) |->
                      <<"W", FrameBytes(28, 0)[((i - 1) % 4) + 1]>>]
         /\ UNCHANGED <<AddressCounter, Cursor_Position, Text, PowerState>>
         /\ pc' = "main" ]_vars

\* one scroll of a display that shows text: 160 writes
C14_Witness ==
  /\ Returned("animate_text")
  /\ last.n = 1
  /\ Text # NoText
  /\ Len(bus) = 160
  /\ lcd.log = [k \in 1 .. 40 |-> <<0, 28>>]

\* C15: an init whose device-presence probe fails returns false, makes no bus
\* transaction and leaves HW061_I2C_Handle, Cursor_Position, Text, State and
\* PowerState unchanged
C15_InitProbeFails ==
  [][ Calling("init") /\ last'.n = 0
      => /\ last'.ret = 0
         /\ bus' = << >>
         /\ UNCHANGED handle
         /\ pc' = "main" ]_vars

\* a failed probe on a handle that has been used
C15_Witness ==
  /\ Returned("init")
  /\ last.n = 0 /\ last.ret = 0
  /\ bus = << >>
  /\ HW061_I2C_Handle = "hi2c1"
  /\ Cursor_Position # <<0, 0>>
  /\ Text # NoText

\* C16: among the bus transactions of a call, one that failed is the last:
\* the call made no further bus transaction after it
C16_BusErrorAborts ==
  \A k \in DOMAIN bus : bus[k][1] \in {"WX", "RX"} => k = Len(bus)

\* C17: whenever a public call has returned, State is HD44780_READY
C17_ReadyOnReturn ==
  pc = "main" /\ calls > 0 => State = "HD44780_READY"

\* the handle is in use between two calls
InUse == pc = "main" /\ HW061_I2C_Handle # "NULL"

\* C18: right after a status read, whatever busy flag it saw, AddressCounter
\* is the controller's DDRAM address; here for the first status read of a
\* clear display sent now, for every execution time of the controller
C18_AddressCounterTracks ==
  InUse =>
    \A lag \in Lags :
      \E s \in {HD44780_Check_Status(
                  Send_Command_Frame([Entry(lag, 0) EXCEPT !.State = "HD44780_BUSY"], 1))} :
        s.AddressCounter = s.lcd.ac

\* r is what a send leaves whose frame has `frame` writes: the writes of the
\* frame, then status reads; none if the send is not confirmed, otherwise at
\* most 20, all busy but the last, and the last is busy only if it is the
\* 20th, which ends in HD44780_TIMEOUT and the handler; State is
\* HD44780_READY in all other cases
SendProtocol(r, frame, CheckBusyFlag) ==
  LET polls == (Len(r.bus) - frame) \div 7
      BF(i) == Bit(r.bus[frame + 7 * (i - 1) + 3][2], 7)
  IN /\ Len(r.bus) = frame + 7 * polls
     /\ \A i \in 1 .. frame : r.bus[i][1] = "W" /\ Bit(r.bus[i][2], 1) = 0
     /\ StatusReads(r.bus) = polls
     /\ IF ~CheckBusyFlag
        THEN polls = 0 /\ r.State = "HD44780_READY" /\ ~r.hung
        ELSE /\ polls \in 1 .. BUSY_RETRIES
             /\ \A i \in 1 .. (polls - 1) : BF(i) = 1
             /\ \/ BF(polls) = 0 /\ r.State = "HD44780_READY" /\ ~r.hung /\ r.hooks = 0
                \/ /\ BF(polls) = 1 /\ polls = BUSY_RETRIES
                   /\ r.State = "HD44780_TIMEOUT" /\ r.hung /\ r.hooks = 1

\* C19: a send issued now follows the protocol above: as a command (clear
\* display) with and without confirmation for every execution time of the
\* controller, as data with and without confirmation on a controller that
\* answers or stops answering, and as a confirmed command on a controller
\* that stops answering
C19_SendProtocol ==
  InUse =>
    /\ \A CheckBusyFlag \in BOOLEAN, lag \in Lags :
         SendProtocol(HD44780_Send_Command(Entry(lag, 0), 1, CheckBusyFlag),
                      4, CheckBusyFlag)
    /\ \A CheckBusyFlag \in BOOLEAN, f \in {0, 1} :
         SendProtocol(HD44780_Send_Data(Entry(0, f), 65, CheckBusyFlag),
                      5, CheckBusyFlag)
    /\ SendProtocol(HD44780_Send_Command(Entry(0, 1), 1, TRUE), 4, TRUE)

\* a clear display whose first status read was busy and whose second was not
C19_Witness ==
  /\ Returned("transmit_command")
  /\ last.cmd = "CLEAR_DISPLAY"
  /\ Len(bus) = 4 + 2 * 7
  /\ Bit(bus[7][2], 7) = 1
  /\ Bit(bus[14][2], 7) = 0
  /\ State = "HD44780_READY"

\* the payloads framed: all of them right after the first call, a few later
FramePayloads == IF calls = 1 THEN 0 .. 255 ELSE {28, 65, 165}

\* a sequence of bytes as bus writes
Writes(bytes) == [i \in 1 .. Len(bytes) |-> <<"W", bytes[i]>>]

\* C20 (as the code has it): framing a payload as a command makes exactly the
\* four writes high nibble with EN, high nibble, low nibble with EN, low
\* nibble, with backlight 1, R/W 0 and RS 0; framing it as data makes five
\* writes: first backlight and RS alone (nibble 0, EN 0), then the same four
\* with RS 1
C20_Framing ==
  InUse =>
    \A payload \in FramePayloads :
      /\ Send_Command_Frame(Now, payload).bus = Writes(FrameBytes(payload, 0))
      /\ Send_Data_Frame(Now, payload).bus =
           Writes(<<HD44780_BACKLIGHT + HD44780_RS>> \o FrameBytes(payload, 1))

\* the data frame of 'A' in a print: 0x09, 0x4D, 0x49, 0x1D, 0x19
C20_Witness ==
  /\ Returned("print")
  /\ last.str = <<65>>
  /\ SubSeq(bus, 8, 12) = Writes(<<9>> \o FrameBytes(65, 1))
  /\ lcd.log = << <<1, 65>> >>

\* C20 (as stated): framing a payload, as a command and as data alike, makes
\* exactly the four writes high nibble with EN, high nibble, low nibble with
\* EN, low nibble, with backlight 1, R/W 0 and RS 0 for a command, 1 for data
C20_FramingFourWrites ==
  InUse =>
    \A payload \in FramePayloads :
      /\ Send_Command_Frame(Now, payload).bus = Writes(FrameBytes(payload, 0))
      /\ Send_Data_Frame(Now, payload).bus = Writes(FrameBytes(payload, 1))

\* C21: the cursor translation of a 7-bit address counter a is (0, a) when
\* a <= 39 and (1, (a - 64) mod 256) when a >= 40: a print of the empty string
\* on a controller that reports a leaves exactly that in Cursor_Position
C21_CursorTranslation ==
  [][ Calling("print") /\ last'.str = << >> =>
      LET a == last'.n
      IN /\ pc' = "main"
         /\ AddressCounter' = a
         /\ Cursor_Position' = IF a <= 39 THEN <<0, a>> ELSE <<1, (a - 64) % 256>> ]_vars

\* address 0x3F translates to row 1, column 255
C21_Witness ==
  /\ Returned("print")
  /\ last.str = << >>
  /\ last.n = 63
  /\ AddressCounter = 63
  /\ Cursor_Position = <<1, 255>>

\* C22: after one successful init of the zeroed handle and any sequence of
\* print, set_cursor_position, clear display and return home that has
\* returned, read_character(row, col) is, for every in-range (row, col), the
\* character in the controller's DDRAM at the address of that cell (col for
\* row 0, 0x40 + col for row 1); it is null exactly for the cells that hold
\* the blank a clear display leaves
C22_MirrorMatchesDdram ==
  pc = "main" /\ calls > 0 =>
    \A r \in 0 .. (HD44780_NUM_ROWS - 1), c \in 0 .. (HD44780_NUM_COLS - 1) :
      LET ch == HD44780_Read_Character(Now, r, c).ret
          cell == lcd.ddram[CellAddress(r * HD44780_NUM_COLS + c)]
      IN IF ch = 0 THEN cell = BLANK ELSE ch = cell

\* the last of four calls printed one character at the home position: the
\* first cell holds it in Text and in DDRAM, the cells after it are blank
C22_Witness ==
  /\ Returned("print")
  /\ calls = MaxDeepCalls
  /\ last.str = Str(1)
  /\ lcd.log = << <<1, 65>> >>
  /\ HD44780_Read_Character(Now, 0, 0).ret = 65
  /\ lcd.ddram[0] = 65
  /\ HD44780_Read_Character(Now, 0, 1).ret = 0
  /\ lcd.ddram[1] = BLANK
  /\ HD44780_Read_Character(Now, 1, 0).ret = 0

\* the column of the (shifted) display line at which the character of a DDRAM
\* address is
ShownColumn(l, address) == ((address % DDRAM_ROW1) + l.shift) % ShiftLen(l)

\* C23: the instructions animate_text(n) issues are display shifts to the
\* right (0x1C) and nothing else, their number is a multiple of the 40
\* positions of a line in two-row mode, and the call returns; on a controller
\* that has executed them the display shift offset is what it was before the
\* call, and every DDRAM cell holds the same character at the same column
C23_AnimateWholeSweeps ==
  [][ Calling("animate_text") =>
      /\ lcd.N /\ ShiftLen(lcd) = DDRAM_LINE
      /\ Len(lcd'.log) % DDRAM_LINE = 0
      /\ \A k \in DOMAIN lcd'.log : lcd'.log[k] = <<0, 28>>
      /\ pc' = "main"
      /\ ~lcd'.stuck =>
           /\ lcd'.shift = lcd.shift
           /\ \A a \in DDRAMAddrs :
                /\ lcd'.ddram[a] = lcd.ddram[a]
                /\ ShownColumn(lcd', a) = ShownColumn(lcd, a) ]_vars

\* one sweep over a display that shows a character in its first cell: the
\* controller has executed 40 shifts and the offset is 0 again
C23_Witness ==
  /\ Returned("animate_text")
  /\ last.n = 1
  /\ Len(lcd.log) = DDRAM_LINE
  /\ ~lcd.stuck
  /\ lcd.shift = 0
  /\ lcd.ddram[0] # BLANK
  /\ ShownColumn(lcd, 0) = 0

\* C24: after a successful init, whenever a public call has returned, the
\* cached cursor is inside the display: get_row_index() < 2 and
\* get_column_index() < 16
C24_CursorInGeometry ==
  InUse =>
    /\ HD44780_Get_Row_Index(Now) < HD44780_NUM_ROWS
    /\ HD44780_Get_Column_Index(Now) < HD44780_NUM_COLS

\* C25: whatever address counter 0 .. 127 the controller reports at the start
\* of a print and whatever the length of the string, every index at which
\* the print stores into Text is in 0 .. 31, the slots of Text that change
\* are among them, and an in-range read_character reads at row * 16 + column,
\* which is in 0 .. 31; an out-of-range one reads nothing
C25_TextIndexInBounds ==
  [][ Calling("print") \/ Calling("read_character") =>
      /\ idx' \subseteq 0 .. (HD44780_NUM_ELEMENTS - 1)
      /\ {i \in DOMAIN Text : Text'[i] # Text[i]} \subseteq idx'
      /\ last'.op = "read_character" =>
           idx' = IF InRange(last'.row, last'.col)
                  THEN {last'.row * HD44780_NUM_COLS + last'.col} ELSE {} ]_vars

\* 33 characters printed with the controller at address 0x3F: the cursor is
\* taken to be (1, 255), the start index wraps to 15 and the slots 15 .. 31
\* are written
C25_Witness ==
  /\ Returned("print")
  /\ last.n = 63
  /\ Len(last.str) = MaxStrLen
  /\ idx = 15 .. (HD44780_NUM_ELEMENTS - 1)
  /\ Text[15] = last.str[1]
  /\ Text[HD44780_NUM_ELEMENTS - 1] = last.str[17]

=============================================================================
